---- MODULE Spec2Model ----
(***************************************************************************)
(* commit-pilot (src/commit_pilot/main.py): one run of main().             *)
(*                                                                         *)
(* A Python str is a sequence of one-character strings, so that split,     *)
(* join, strip, lower, startswith and slicing are computed character by    *)
(* character.  The external calls (git, the t5-small pipeline, the         *)
(* questionary prompts) are nondeterministic choices over their outcomes.  *)
(***************************************************************************)
EXTENDS Integers, Sequences, FiniteSets, TLC

VARIABLES
    pc,               \* position of the run in main / generate_commit_message
    exit_code,        \* exit statuses of the process: << >> while running
    out,              \* notices printed so far, in order (tags)
    fetch_status,     \* outcome of subprocess.run(["git","diff","--staged"])
    diff_output,      \* main: diff_output
    diff,             \* generate_commit_message: parameter diff
    lines,            \* generate_commit_message: diff.split('\n')
    idx,              \* generate_commit_message: position of the for loop
    cleaned_lines,    \* generate_commit_message: cleaned_lines
    cleaned_diff,     \* generate_commit_message: cleaned_diff
    truncated_diff,   \* generate_commit_message: truncated_diff
    prompt,           \* generate_commit_message: prompt handed to summarizer
    summary,          \* summary_list[0]['summary_text']
    commit_message,   \* generate_commit_message: value being returned
    formatted,        \* TRUE once lines 58-65 have run in this call
    ai_message,       \* main: ai_message
    shown,            \* the suggested message printed at line 88
    action,           \* main: action (answer of questionary.select)
    edited_message,   \* main: edited_message (answer of questionary.text)
    committed,        \* argument of the last "git commit -m"
    commit_status,    \* outcome of subprocess.run(["git","commit",...])
    diffCalls,        \* number of "git diff --staged" invocations
    summarizerCalls,  \* number of summarizer(prompt, ...) invocations
    summarizer_status,\* outcome of the pipeline call
    selectCalls,      \* number of confirmation prompts shown
    commitCalls       \* number of "git commit" invocations

vars == << pc, exit_code, out, fetch_status, diff_output, diff, lines, idx,
           cleaned_lines, cleaned_diff, truncated_diff, prompt, summary,
           commit_message, formatted, ai_message, shown, action,
           edited_message, committed, commit_status, diffCalls,
           summarizerCalls, summarizer_status, selectCalls, commitCalls >>

-----------------------------------------------------------------------------
(* Bounds of the model *)

\* Largest number of lines of a staged diff assembled from LinePool.
MaxLines == 2

-----------------------------------------------------------------------------
(* Python values *)

\* Python's None: a value no str (sequence of characters) is equal to.
None == << "None" >>

\* The exit statuses the process has ended with: none while it runs.
NoExit == << >>

\* bool(x) is False for None and for the empty str.
Falsy(x) == x = None \/ x = << >>

UpperChars == << "A","B","C","D","E","F","G","H","I","J","K","L","M",
                 "N","O","P","Q","R","S","T","U","V","W","X","Y","Z" >>
LowerChars == << "a","b","c","d","e","f","g","h","i","j","k","l","m",
                 "n","o","p","q","r","s","t","u","v","w","x","y","z" >>

LowerChar(c) ==
    IF \E k \in 1..Len(UpperChars) : UpperChars[k] = c
    THEN LowerChars[CHOOSE k \in 1..Len(UpperChars) : UpperChars[k] = c]
    ELSE c

\* str.lower()
Lower(s) == [k \in 1..Len(s) |-> LowerChar(s[k])]

\* Characters removed by str.strip() with no argument.
Whitespace == { " ", "\t", "\n", "\r" }

\* str.strip()
Strip(s) ==
    LET keep == { k \in 1..Len(s) : s[k] \notin Whitespace }
    IN  IF keep = {} THEN << >>
        ELSE LET lo == CHOOSE k \in keep : \A j \in keep : k <= j
                 hi == CHOOSE k \in keep : \A j \in keep : j <= k
             IN  SubSeq(s, lo, hi)

\* s.startswith(p)
StartsWith(s, p) == Len(s) >= Len(p) /\ SubSeq(s, 1, Len(p)) = p

\* s.startswith((p1, p2, ...))
StartsWithAny(s, ps) == \E k \in 1..Len(ps) : StartsWith(s, ps[k])

\* s.split('\n')
Split(s) ==
    LET nl == { k \in 1..Len(s) : s[k] = "\n" }
        n  == Cardinality(nl)
        pos(k) == IF k = 0 THEN 0
                  ELSE IF k = n + 1 THEN Len(s) + 1
                  ELSE CHOOSE p \in nl : Cardinality({ q \in nl : q < p }) = k - 1
    IN  [k \in 1..(n + 1) |-> SubSeq(s, pos(k - 1) + 1, pos(k) - 1)]

\* "\n".join(ls)
RECURSIVE Join(_)
Join(ls) ==
    IF Len(ls) = 0 THEN << >>
    ELSE IF Len(ls) = 1 THEN ls[1]
    ELSE ls[1] \o << "\n" >> \o Join(Tail(ls))

-----------------------------------------------------------------------------
(* Constants of generate_commit_message *)

max_length == 2000

\* line 32: ('diff --git', 'index', '---', '+++', 'Binary files')
HeaderPrefixes == <<
    << "d","i","f","f"," ","-","-","g","i","t" >>,
    << "i","n","d","e","x" >>,
    << "-","-","-" >>,
    << "+","+","+" >>,
    << "B","i","n","a","r","y"," ","f","i","l","e","s" >> >>

\* line 35: ('+', '-')
ChangeMarkers == << << "+" >>, << "-" >> >>

\* line 41: "chore: Update file metadata or permissions"
DefaultMessage == << "c","h","o","r","e",":"," ","U","p","d","a","t","e"," ",
                     "f","i","l","e"," ","m","e","t","a","d","a","t","a"," ",
                     "o","r"," ","p","e","r","m","i","s","s","i","o","n","s" >>

\* line 54: "summarize the following code changes into a short git commit message: "
PromptPrefix == << "s","u","m","m","a","r","i","z","e"," ","t","h","e"," ",
                   "f","o","l","l","o","w","i","n","g"," ","c","o","d","e"," ",
                   "c","h","a","n","g","e","s"," ","i","n","t","o"," ","a"," ",
                   "s","h","o","r","t"," ","g","i","t"," ","c","o","m","m","i","t"," ",
                   "m","e","s","s","a","g","e",":"," " >>

\* line 61: prefixes
prefixes == <<
    << "f","e","a","t",":" >>,
    << "f","i","x",":" >>,
    << "c","h","o","r","e",":" >>,
    << "d","o","c","s",":" >>,
    << "s","t","y","l","e",":" >>,
    << "r","e","f","a","c","t","o","r",":" >>,
    << "p","e","r","f",":" >>,
    << "t","e","s","t",":" >> >>

\* line 63: "feat: "
FeatPrefix == << "f","e","a","t",":"," " >>

-----------------------------------------------------------------------------
(* Inputs: what the external world can hand to the run *)

\* Body of a long added line: max_length - 1 characters, cycling a, b, c.
LongBody == [k \in 1..(max_length - 1) |-> << "a", "b", "c" >>[(k % 3) + 1]]

\* Lines a staged diff is assembled from.
LinePool == {
    << "d","i","f","f"," ","-","-","g","i","t"," ","a","/","x"," ","b","/","x" >>,
    << "i","n","d","e","x"," ","1",".",".","2" >>,
    << "-","-","-"," ","a","/","x" >>,
    << "+","+","+"," ","b","/","x" >>,
    << "B","i","n","a","r","y"," ","f","i","l","e","s"," ","d","i","f","f","e","r" >>,
    << "@","@"," ","-","1"," ","+","1"," ","@","@" >>,
    << " ","x" >>,
    << "+","A" >>,
    << "-","b" >>,
    << "-","-"," ","y" >>,
    << "+" >>,
    << >>,
    << "+" >> \o LongBody }

\* Sequences of at most n lines of LinePool.
RECURSIVE LineSeqs(_)
LineSeqs(n) ==
    IF n = 0 THEN { << >> }
    ELSE LET shorter == LineSeqs(n - 1)
         IN  shorter \cup { Append(ls, l) : ls \in { t \in shorter : Len(t) = n - 1 },
                                            l \in LinePool }

\* A diff that holds header lines only.
HeaderOnlyDiff == Join(<<
    << "d","i","f","f"," ","-","-","g","i","t"," ","a","/","x"," ","b","/","x" >>,
    << "i","n","d","e","x"," ","1",".",".","2" >>,
    << "-","-","-"," ","a","/","x" >>,
    << "+","+","+"," ","b","/","x" >> >>)

\* A one-hunk diff as git prints it, ending with a newline.
OneHunkDiff == Join(<<
    << "d","i","f","f"," ","-","-","g","i","t"," ","a","/","x"," ","b","/","x" >>,
    << "i","n","d","e","x"," ","1",".",".","2" >>,
    << "-","-","-"," ","a","/","x" >>,
    << "+","+","+"," ","b","/","x" >>,
    << "@","@"," ","-","1"," ","+","1"," ","@","@" >>,
    << " ","x" >>,
    << "-","b" >>,
    << "+","A" >>,
    << >> >>)

\* Possible stdout of "git diff --staged"; the empty str when nothing is staged.
Diffs == { Join(ls) : ls \in LineSeqs(MaxLines) } \cup { HeaderOnlyDiff, OneHunkDiff }

\* Possible summary_text values of the model's answer.
Summaries == {
    << >>,
    << " ", "\n" >>,
    << "A","d","d"," ","X" >>,
    << " ","F","i","x",":"," ","B","u","g"," ","\n" >>,
    << "F","E","A","T",":","y" >>,
    << "f","e","a","t","u","r","e" >>,
    << "c","h","o","r","e",":" >>,
    << "D","o","c","s",":"," ","r" >>,
    << "s","t","y","l","e",":","Z" >>,
    << "R","e","f","a","c","t","o","r",":"," ","q" >>,
    << "P","E","R","F",":"," ","p" >>,
    << "t","e","s","t",":"," ","T" >>,
    << "t","e","s","t","s" >>,
    << "f","i","x"," ",":" >> }

\* Possible answers of the confirmation prompt; None when it is aborted.
Choices == { << "Y","e","s" >>, << "E","d","i","t" >>, << "N","o" >>, None }

Yes == << "Y","e","s" >>
Edit == << "E","d","i","t" >>
No == << "N","o" >>

\* Possible answers of the edit prompt pre-filled with m; None when aborted.
Edits(m) == { None, << >>, << " " >>, m, << "f","i","x",":"," ","y" >> }

-----------------------------------------------------------------------------
(* State after process start *)

Init ==
    /\ pc = "start"
    /\ exit_code = NoExit
    /\ out = << >>
    /\ fetch_status = "none"
    /\ diff_output = None
    /\ diff = None
    /\ lines = << >>
    /\ idx = 0
    /\ cleaned_lines = << >>
    /\ cleaned_diff = None
    /\ truncated_diff = None
    /\ prompt = None
    /\ summary = None
    /\ commit_message = None
    /\ formatted = FALSE
    /\ ai_message = None
    /\ shown = None
    /\ action = None
    /\ edited_message = None
    /\ committed = None
    /\ commit_status = "none"
    /\ diffCalls = 0
    /\ summarizerCalls = 0
    /\ summarizer_status = "none"
    /\ selectCalls = 0
    /\ commitCalls = 0

mainVars == << diff_output, ai_message, shown, action, edited_message >>
genVars == << diff, lines, idx, cleaned_lines, cleaned_diff, truncated_diff,
              prompt, summary, commit_message, formatted >>
callVars == << fetch_status, committed, commit_status, diffCalls,
               summarizerCalls, summarizer_status, selectCalls, commitCalls >>

\* sys.exit(code), or an uncaught exception (status 1)
Exit(code) == pc' = "done" /\ exit_code' = Append(exit_code, code)

\* The process has ended with status code.
ExitedWith(code) == exit_code = << code >>

\* print(...)
Emit(tag) == out' = Append(out, tag)

-----------------------------------------------------------------------------
(* get_staged_diff *)

\* lines 12-15: the command succeeds and its stdout is returned
GetStagedDiffOk ==
    /\ pc = "start"
    /\ \E d \in Diffs : diff_output' = d
    /\ diffCalls' = diffCalls + 1
    /\ fetch_status' = "ok"
    /\ pc' = "fetched"
    /\ UNCHANGED << exit_code, out, ai_message, shown, action, edited_message,
                    genVars, committed, commit_status, summarizerCalls,
                    summarizer_status, selectCalls, commitCalls >>

\* Faulty variant of lines 16-18: the error is reported and "" is returned
GetStagedDiffSwallowsError ==
    /\ pc = "start"
    /\ diffCalls' = diffCalls + 1
    /\ fetch_status' = "CalledProcessError"
    /\ out' = Append(out, "fetch_error")
    /\ diff_output' = << >>
    /\ pc' = "fetched"
    /\ UNCHANGED << exit_code, ai_message, shown, action, edited_message,
                    diff, lines, idx, cleaned_lines, cleaned_diff,
                    truncated_diff, prompt, summary, commit_message, formatted,
                    committed, commit_status, summarizerCalls,
                    summarizer_status, selectCalls, commitCalls >>

\* lines 16-18: non-zero exit of git diff
GetStagedDiffCalledProcessError ==
    /\ pc = "start"
    /\ diffCalls' = diffCalls + 1
    /\ fetch_status' = "CalledProcessError"
    /\ Emit("fetch_error")
    /\ Exit(1)
    /\ UNCHANGED << mainVars, genVars, committed, commit_status, summarizerCalls,
                    summarizer_status, selectCalls, commitCalls >>

\* lines 19-21: no git executable on PATH
GetStagedDiffFileNotFoundError ==
    /\ pc = "start"
    /\ diffCalls' = diffCalls + 1
    /\ fetch_status' = "FileNotFoundError"
    /\ Emit("git_missing")
    /\ Exit(1)
    /\ UNCHANGED << mainVars, genVars, committed, commit_status, summarizerCalls,
                    summarizer_status, selectCalls, commitCalls >>

-----------------------------------------------------------------------------
(* main, lines 81-85 *)

\* Faulty variant of line 81: "if diff_output is None"
NoStagedChangesIsNone(d) == d = None

\* line 81: if not diff_output
NoStagedChanges(d) == Falsy(d)

\* lines 81-83: nothing staged
MainNoStaged ==
    /\ pc = "fetched"
    /\ NoStagedChanges(diff_output)
    /\ Emit("no_staged")
    /\ Exit(0)
    /\ UNCHANGED << mainVars, genVars, callVars >>

\* line 85: call generate_commit_message(diff_output).  main never reads
\* diff_output again, and the model forgets it here.
MainCallGenerate ==
    /\ pc = "fetched"
    /\ ~ NoStagedChanges(diff_output)
    /\ diff' = diff_output
    /\ diff_output' = None
    /\ pc' = "gen_entry"
    /\ UNCHANGED << exit_code, out, ai_message, shown, action, edited_message, lines, idx, cleaned_lines,
                    cleaned_diff, truncated_diff, prompt, summary,
                    commit_message, formatted, callVars >>

-----------------------------------------------------------------------------
(* generate_commit_message *)

\* lines 25-30: return None for an empty diff; otherwise cleaned_lines = []
\* and the loop over diff.split('\n') starts
GenEntry ==
    /\ pc = "gen_entry"
    /\ IF Falsy(diff)
       THEN /\ commit_message' = None
            /\ pc' = "gen_return"
            /\ UNCHANGED << cleaned_lines, lines, idx >>
       ELSE /\ cleaned_lines' = << >>
            /\ lines' = Split(diff)
            /\ idx' = 1
            /\ pc' = "loop"
            /\ UNCHANGED commit_message
    /\ UNCHANGED << exit_code, out, mainVars, diff, cleaned_diff,
                    truncated_diff, prompt, summary, formatted, callVars >>

\* Faulty variant of line 32: the '---' and '+++' file markers are not skipped
IsHeaderWithoutFileMarkers(line) ==
    \/ StartsWith(line, HeaderPrefixes[1])
    \/ StartsWith(line, HeaderPrefixes[2])
    \/ StartsWith(line, HeaderPrefixes[5])

\* line 32: the line is a git header or a binary-file notice
IsHeader(line) == StartsWithAny(line, HeaderPrefixes)

\* line 35: the line is an added or removed line
IsChange(line) == StartsWithAny(line, ChangeMarkers)

\* Faulty variant of lines 32-37: the leading '+' or '-' is kept
CleanStepKeepsMarker(acc, line) ==
    IF StartsWithAny(line, HeaderPrefixes) THEN acc
    ELSE IF StartsWithAny(line, ChangeMarkers) THEN Append(acc, line)
    ELSE acc

\* lines 32-37: cleaned_lines after one iteration on line
CleanStep(acc, line) ==
    IF IsHeader(line) THEN acc
    ELSE IF IsChange(line) THEN Append(acc, SubSeq(line, 2, Len(line)))
    ELSE acc

\* lines 30-37: one iteration of the loop
CleanLine ==
    /\ pc = "loop"
    /\ idx <= Len(lines)
    /\ cleaned_lines' = CleanStep(cleaned_lines, lines[idx])
    /\ idx' = idx + 1
    /\ UNCHANGED << pc, exit_code, out, mainVars, diff, lines, cleaned_diff,
                    truncated_diff, prompt, summary, commit_message, formatted,
                    callVars >>

\* line 40: if not cleaned_lines
NoMeaningfulChanges(cl) == cl = << >>

\* lines 40-41: no content line survived
GenDefault ==
    /\ pc = "loop"
    /\ idx > Len(lines)
    /\ NoMeaningfulChanges(cleaned_lines)
    /\ commit_message' = DefaultMessage
    /\ pc' = "gen_return"
    /\ UNCHANGED << exit_code, out, mainVars, diff, lines, idx, cleaned_lines,
                    cleaned_diff, truncated_diff, prompt, summary, formatted,
                    callVars >>

\* Faulty variant of line 47: "cleaned_diff[:max_length + 1]"
TruncateOneMore(s) ==
    SubSeq(s, 1, IF Len(s) < max_length + 1 THEN Len(s) ELSE max_length + 1)

\* line 47: cleaned_diff[:max_length]
Truncate(s) == SubSeq(s, 1, IF Len(s) < max_length THEN Len(s) ELSE max_length)

\* lines 43-50: join, truncate, announce
GenJoinTruncate ==
    /\ pc = "loop"
    /\ idx > Len(lines)
    /\ ~ NoMeaningfulChanges(cleaned_lines)
    /\ cleaned_diff' = Join(cleaned_lines)
    /\ truncated_diff' = Truncate(Join(cleaned_lines))
    /\ Emit("generating")
    /\ pc' = "summarize"
    /\ UNCHANGED << exit_code, mainVars, diff, lines, idx, cleaned_lines,
                    prompt, summary, commit_message, formatted, callVars >>

\* line 54: the prompt
BuildPrompt(td) == PromptPrefix \o td

\* lines 51-56: the pipeline is built and called, and answers
SummarizeOk ==
    /\ pc = "summarize"
    /\ prompt' = BuildPrompt(truncated_diff)
    /\ summarizerCalls' = summarizerCalls + 1
    /\ summarizer_status' = "ok"
    /\ \E s \in Summaries : summary' = s
    /\ pc' = "format"
    /\ UNCHANGED << exit_code, out, mainVars, diff, lines, idx, cleaned_lines,
                    cleaned_diff, truncated_diff, commit_message, formatted,
                    fetch_status, committed, commit_status, diffCalls,
                    selectCalls, commitCalls >>

\* lines 51-56: the pipeline raises (model missing, malformed result);
\* the exception is not caught and the interpreter exits with status 1
SummarizeRaises ==
    /\ pc = "summarize"
    /\ prompt' = BuildPrompt(truncated_diff)
    /\ summarizerCalls' = summarizerCalls + 1
    /\ summarizer_status' = "raised"
    /\ Exit(1)
    /\ UNCHANGED << out, mainVars, diff, lines, idx, cleaned_lines,
                    cleaned_diff, truncated_diff, summary, commit_message,
                    formatted, fetch_status, committed, commit_status,
                    diffCalls, selectCalls, commitCalls >>

\* Faulty variant of line 62: the prefix test is case-sensitive
HasPrefixCaseSensitive(m) == \E k \in 1..Len(prefixes) : StartsWith(m, prefixes[k])

\* line 62: any(commit_message.lower().startswith(p) for p in prefixes)
HasPrefix(m) == \E k \in 1..Len(prefixes) : StartsWith(Lower(m), prefixes[k])

\* lines 62-63: add a conventional commit prefix if it doesn't have one
AddPrefix(m) == IF ~ HasPrefix(m) THEN FeatPrefix \o m ELSE m

\* Faulty variant of line 65: "return commit_message"
ReturnedUnchanged(m) == m

\* line 65: the returned value
Returned(m) == Lower(m)

\* line 58: commit_message = summary_list[0]['summary_text'].strip()
GenStrip ==
    /\ pc = "format"
    /\ commit_message' = Strip(summary)
    /\ pc' = "prefix"
    /\ UNCHANGED << exit_code, out, mainVars, diff, lines, idx, cleaned_lines,
                    cleaned_diff, truncated_diff, prompt, summary, formatted,
                    callVars >>

\* lines 61-63
GenPrefix ==
    /\ pc = "prefix"
    /\ commit_message' = AddPrefix(commit_message)
    /\ pc' = "lower"
    /\ UNCHANGED << exit_code, out, mainVars, diff, lines, idx, cleaned_lines,
                    cleaned_diff, truncated_diff, prompt, summary, formatted,
                    callVars >>

\* line 65: return commit_message.lower()
GenLower ==
    /\ pc = "lower"
    /\ commit_message' = Returned(commit_message)
    /\ formatted' = TRUE
    /\ pc' = "gen_return"
    /\ UNCHANGED << exit_code, out, mainVars, diff, lines, idx, cleaned_lines,
                    cleaned_diff, truncated_diff, prompt, summary, callVars >>

\* line 85: ai_message = <returned value>; the callee's locals are gone
MainAssignMessage ==
    /\ pc = "gen_return"
    /\ ai_message' = commit_message
    /\ diff' = None
    /\ lines' = << >>
    /\ idx' = 0
    /\ cleaned_lines' = << >>
    /\ cleaned_diff' = None
    /\ truncated_diff' = None
    /\ prompt' = None
    /\ summary' = None
    /\ commit_message' = None
    /\ formatted' = FALSE
    /\ pc' = "show"
    /\ UNCHANGED << exit_code, out, diff_output, shown, action, edited_message,
                    callVars >>

-----------------------------------------------------------------------------
(* main, lines 87-109 *)

\* lines 87-94: print the suggestion, ask the confirmation prompt
MainSelect ==
    /\ pc = "show"
    /\ shown' = ai_message
    /\ Emit("suggested")
    /\ selectCalls' = selectCalls + 1
    /\ \E a \in Choices : action' = a
    /\ pc' = "act"
    /\ UNCHANGED << exit_code, diff_output, ai_message, edited_message, genVars,
                    fetch_status, committed, commit_status, diffCalls,
                    summarizerCalls, summarizer_status, commitCalls >>

\* Faulty variant of line 104: "if edited_message is not None"
EditAcceptedUnlessAborted(e) == e # None

\* line 104: if edited_message
EditAccepted(e) == ~ Falsy(e)

\* lines 96-97: "Yes"
MainYes ==
    /\ pc = "act"
    /\ action = Yes
    /\ committed' = ai_message
    /\ pc' = "commit"
    /\ UNCHANGED << exit_code, out, mainVars, genVars, fetch_status,
                    commit_status, diffCalls, summarizerCalls,
                    summarizer_status, selectCalls, commitCalls >>

\* lines 98-105: "Edit", and the edited message is not empty
MainEditCommit ==
    /\ pc = "act"
    /\ action # Yes
    /\ action = Edit
    /\ \E e \in Edits(ai_message) :
          /\ EditAccepted(e)
          /\ edited_message' = e
          /\ committed' = e
    /\ pc' = "commit"
    /\ UNCHANGED << exit_code, out, diff_output, ai_message, shown, action,
                    genVars, fetch_status, commit_status, diffCalls,
                    summarizerCalls, summarizer_status, selectCalls,
                    commitCalls >>

\* lines 98-107: "Edit", and the edited message is empty or the prompt aborted
MainEditCancel ==
    /\ pc = "act"
    /\ action # Yes
    /\ action = Edit
    /\ \E e \in Edits(ai_message) :
          /\ ~ EditAccepted(e)
          /\ edited_message' = e
    /\ Emit("cancelled")
    /\ pc' = "end"
    /\ UNCHANGED << exit_code, diff_output, ai_message, shown, action, genVars,
                    callVars >>

\* Faulty variant of lines 108-109: the cancellation ends with sys.exit(1)
MainNoExitsOne ==
    /\ pc = "act"
    /\ action # Yes
    /\ action # Edit
    /\ out' = Append(out, "cancelled")
    /\ pc' = "done"
    /\ exit_code' = Append(exit_code, 1)
    /\ UNCHANGED << diff_output, ai_message, shown, action, edited_message,
                    diff, lines, idx, cleaned_lines, cleaned_diff,
                    truncated_diff, prompt, summary, commit_message, formatted,
                    fetch_status, committed, commit_status, diffCalls,
                    summarizerCalls, summarizer_status, selectCalls,
                    commitCalls >>

\* lines 108-109: any other answer
MainNo ==
    /\ pc = "act"
    /\ action # Yes
    /\ action # Edit
    /\ Emit("cancelled")
    /\ pc' = "end"
    /\ UNCHANGED << exit_code, mainVars, genVars, callVars >>

-----------------------------------------------------------------------------
(* perform_commit *)

\* lines 70-72: git commit exits 0
PerformCommitOk ==
    /\ pc = "commit"
    /\ commitCalls' = commitCalls + 1
    /\ commit_status' = "ok"
    /\ Emit("commit_successful")
    /\ pc' = "end"
    /\ UNCHANGED << exit_code, mainVars, genVars, fetch_status, committed,
                    diffCalls, summarizerCalls, summarizer_status, selectCalls >>

\* Faulty variant of lines 73-75: the failure is reported without sys.exit(1)
PerformCommitFailureIgnored ==
    /\ pc = "commit"
    /\ commitCalls' = commitCalls + 1
    /\ commit_status' = "CalledProcessError"
    /\ out' = Append(out, "commit_failed")
    /\ pc' = "end"
    /\ UNCHANGED << exit_code, diff_output, ai_message, shown, action,
                    edited_message, diff, lines, idx, cleaned_lines,
                    cleaned_diff, truncated_diff, prompt, summary,
                    commit_message, formatted, fetch_status, committed,
                    diffCalls, summarizerCalls, summarizer_status,
                    selectCalls >>

\* lines 73-75: git commit exits non-zero
PerformCommitCalledProcessError ==
    /\ pc = "commit"
    /\ commitCalls' = commitCalls + 1
    /\ commit_status' = "CalledProcessError"
    /\ Emit("commit_failed")
    /\ Exit(1)
    /\ UNCHANGED << mainVars, genVars, fetch_status, committed, diffCalls,
                    summarizerCalls, summarizer_status, selectCalls >>

\* line 71: no git executable on PATH; the FileNotFoundError is not caught
\* and the interpreter exits with status 1
PerformCommitFileNotFoundError ==
    /\ pc = "commit"
    /\ commitCalls' = commitCalls + 1
    /\ commit_status' = "FileNotFoundError"
    /\ Exit(1)
    /\ UNCHANGED << out, mainVars, genVars, fetch_status, committed, diffCalls,
                    summarizerCalls, summarizer_status, selectCalls >>

\* main returns; the interpreter exits with status 0
MainReturn ==
    /\ pc = "end"
    /\ Exit(0)
    /\ UNCHANGED << out, mainVars, genVars, callVars >>

-----------------------------------------------------------------------------

Next ==
    \/ GetStagedDiffOk
    \/ GetStagedDiffCalledProcessError
    \/ GetStagedDiffFileNotFoundError
    \/ MainNoStaged
    \/ MainCallGenerate
    \/ GenEntry
    \/ CleanLine
    \/ GenDefault
    \/ GenJoinTruncate
    \/ SummarizeOk
    \/ SummarizeRaises
    \/ GenStrip
    \/ GenPrefix
    \/ GenLower
    \/ MainAssignMessage
    \/ MainSelect
    \/ MainYes
    \/ MainEditCommit
    \/ MainEditCancel
    \/ MainNo
    \/ PerformCommitOk
    \/ PerformCommitCalledProcessError
    \/ PerformCommitFileNotFoundError
    \/ MainReturn

Spec == Init /\ [][Next]_vars

\* Every call blocks until it completes, and the script runs to its end.
FairSpec == Spec /\ WF_vars(Next)

TypeOK ==
    /\ pc \in { "start", "fetched", "gen_entry", "loop", "summarize", "format",
                "prefix", "lower", "gen_return", "show", "act", "commit", "end", "done" }
    /\ exit_code \in { NoExit, << 0 >>, << 1 >> }
    /\ (pc = "done") <=> (exit_code # NoExit)

-----------------------------------------------------------------------------
(* Vocabulary of the properties *)

\* The eight conventional-commit prefixes, lower-case.
ConventionalPrefixes == {
    << "f","e","a","t",":" >>, << "f","i","x",":" >>,
    << "c","h","o","r","e",":" >>, << "d","o","c","s",":" >>,
    << "s","t","y","l","e",":" >>, << "r","e","f","a","c","t","o","r",":" >>,
    << "p","e","r","f",":" >>, << "t","e","s","t",":" >> }

\* s begins with p
Begins(s, p) == Len(s) >= Len(p) /\ \A k \in 1..Len(p) : s[k] = p[k]

\* s begins with p, letter case of s aside
BeginsIgnoringCase(s, p) ==
    Len(s) >= Len(p) /\ \A k \in 1..Len(p) : LowerChar(s[k]) = p[k]

\* s without its leading and trailing whitespace, one character at a time
RECURSIVE Trimmed(_)
Trimmed(s) ==
    IF s = << >> THEN s
    ELSE IF Head(s) \in Whitespace THEN Trimmed(Tail(s))
    ELSE IF s[Len(s)] \in Whitespace THEN Trimmed(SubSeq(s, 1, Len(s) - 1))
    ELSE s

\* Line prefixes that never count as content.
ExcludedPrefixes == {
    << "d","i","f","f"," ","-","-","g","i","t" >>,
    << "i","n","d","e","x" >>,
    << "-","-","-" >>,
    << "+","+","+" >>,
    << "B","i","n","a","r","y"," ","f","i","l","e","s" >> }

\* l is a content line: it begins with + or - and with no excluded prefix
ContentLine(l) ==
    /\ l # << >>
    /\ Head(l) \in { "+", "-" }
    /\ \A p \in ExcludedPrefixes : ~ Begins(l, p)

\* The content lines of ls, in order, each without its first character.
ExpectedCleaned(ls) ==
    LET kept == SelectSeq(ls, LAMBDA l : ContentLine(l))
    IN  [k \in 1..Len(kept) |-> Tail(kept[k])]

\* The run ended on a failure of the fetch, the summarizer or the commit.
Failure ==
    \/ fetch_status \in { "CalledProcessError", "FileNotFoundError" }
    \/ summarizer_status = "raised"
    \/ commit_status \in { "CalledProcessError", "FileNotFoundError" }

\* The user confirmed: "Yes", or "Edit" with a non-empty edited message.
Confirmed ==
    \/ action = Yes
    \/ action = Edit /\ edited_message # None /\ edited_message # << >>

\* The user cancelled: "No", or "Edit" with an empty edited message.
Cancelled ==
    \/ action = No
    \/ action = Edit /\ edited_message = << >>

-----------------------------------------------------------------------------
(* Properties *)

\* C1: git commit is invoked at most once in a run, and only after the user
\* answered "Yes", or "Edit" followed by a non-empty edited message; in every
\* other run no commit is invoked.
C1_CommitOnlyWhenConfirmed ==
    /\ commitCalls <= 1
    /\ (commitCalls >= 1 \/ pc = "commit") => Confirmed
    /\ (pc = "done" /\ ~ Confirmed) => commitCalls = 0 /\ committed = None

C1_Witness ==
    /\ pc = "done"
    /\ action = Edit
    /\ edited_message = << "f","i","x",":"," ","y" >>
    /\ commitCalls = 1
    /\ commit_status = "ok"

\* C2: when the diff fetch returns the empty string, the next thing the run
\* does is exit with status 0, with no summarizer call, no confirmation
\* prompt and no commit made.
C2_NoStagedChangesExitZero ==
    [][ (fetch_status = "ok" /\ diff_output = << >>)
          => /\ pc' = "done"
             /\ ExitedWith(0)'
             /\ summarizerCalls' = 0
             /\ selectCalls' = 0
             /\ commitCalls' = 0 ]_vars

C2_Witness ==
    /\ pc = "done"
    /\ fetch_status = "ok"
    /\ diff_output = << >>
    /\ ExitedWith(0)
    /\ out = << "no_staged" >>

\* C3: for a non-empty diff none of whose lines is a content line,
\* generate_commit_message returns exactly the default message, without
\* calling the summarizer and without formatting.
C3_DefaultMessageWhenNoContent ==
    (/\ pc \in { "loop", "summarize", "format", "prefix", "lower", "gen_return" }
     /\ diff # None
     /\ diff # << >>
     /\ \A k \in 1..Len(Split(diff)) : ~ ContentLine(Split(diff)[k]))
    => /\ pc \in { "loop", "gen_return" }
       /\ summarizerCalls = 0
       /\ prompt = None
       /\ ~ formatted
       /\ pc = "gen_return" => commit_message = DefaultMessage

C3_Witness ==
    /\ pc = "gen_return"
    /\ diff = HeaderOnlyDiff
    /\ commit_message = DefaultMessage
    /\ summarizerCalls = 0

\* C4: the prompt handed to the summarizer is the instruction prefix followed
\* by the first 2000 characters of the cleaned diff when it is longer than
\* 2000 characters, and by the whole cleaned diff otherwise.
C4_PromptHoldsFirst2000 ==
    (summarizerCalls >= 1 /\ cleaned_diff # None)
    => /\ summarizerCalls = 1
       /\ prompt = PromptPrefix \o
                   (IF Len(cleaned_diff) > 2000
                    THEN [k \in 1..2000 |-> cleaned_diff[k]]
                    ELSE cleaned_diff)

C4_Witness ==
    /\ pc = "format"
    /\ Len(cleaned_diff) = 2001
    /\ Len(prompt) = Len(PromptPrefix) + 2000

\* C5: with t the summarizer output trimmed of surrounding whitespace, the
\* formatted message is t lower-cased when t begins, case aside, with one of
\* the eight prefixes, and "feat: " followed by t, lower-cased, otherwise.
C5_FormatterPrefix ==
    (pc = "gen_return" /\ formatted)
    => LET t == Trimmed(summary)
       IN  IF \E p \in ConventionalPrefixes : BeginsIgnoringCase(t, p)
           THEN commit_message = [k \in 1..Len(t) |-> LowerChar(t[k])]
           ELSE commit_message =
                   << "f","e","a","t",":"," " >> \o
                   [k \in 1..Len(t) |-> LowerChar(t[k])]

C5_Witness ==
    /\ pc = "gen_return"
    /\ formatted
    /\ summary = << " ","F","i","x",":"," ","B","u","g"," ","\n" >>
    /\ commit_message = << "f","i","x",":"," ","b","u","g" >>

\* C6: when the diff fetch fails (git missing, or git diff exits non-zero),
\* the process has exited with status 1 after one diff command and one error
\* notice, and no summarizer call, prompt or commit follows.
C6_FetchFailureIsFatal ==
    fetch_status \in { "CalledProcessError", "FileNotFoundError" }
    => /\ pc = "done"
       /\ ExitedWith(1)
       /\ diffCalls = 1
       /\ out \in { << "fetch_error" >>, << "git_missing" >> }
       /\ summarizerCalls = 0
       /\ selectCalls = 0
       /\ commitCalls = 0

C6_Witness ==
    /\ pc = "done"
    /\ fetch_status = "CalledProcessError"
    /\ out = << "fetch_error" >>
    /\ ExitedWith(1)

\* C7: every run ends, with status 1 when the fetch, the summarizer or the
\* commit failed and with status 0 otherwise.
C7_ExitCodes ==
    /\ <>(pc = "done")
    /\ [](pc = "done" => /\ Failure => ExitedWith(1)
                         /\ ~ Failure => ExitedWith(0))

C7_Witness ==
    /\ pc = "done"
    /\ commit_status = "CalledProcessError"
    /\ ExitedWith(1)

\* C8: after "No", or "Edit" with an empty edited message, the cancellation
\* notice is printed, no commit is invoked and the process exits with 0.
C8_CancelExitsZero ==
    Cancelled
    => /\ commitCalls = 0
       /\ pc \in { "act", "end", "done" }
       /\ pc \in { "end", "done" } => out[Len(out)] = "cancelled"
       /\ pc = "done" => ExitedWith(0)

C8_Witness ==
    /\ pc = "done"
    /\ action = Edit
    /\ edited_message = << >>
    /\ out[Len(out)] = "cancelled"
    /\ ExitedWith(0)

\* C9: the cleaned lines are the content lines of the raw diff, in order, each
\* without its first character, and the cleaned diff is those lines joined
\* with newlines; no other line contributes.
C9_CleanedDiff ==
    /\ pc = "loop"
       => cleaned_lines = ExpectedCleaned(SubSeq(Split(diff), 1, idx - 1))
    /\ pc \in { "summarize", "format", "prefix", "lower" }
       => /\ cleaned_lines = ExpectedCleaned(Split(diff))
          /\ Split(cleaned_diff) = ExpectedCleaned(Split(diff))

C9_Witness ==
    /\ pc = "summarize"
    /\ diff = OneHunkDiff
    /\ cleaned_diff = << "b", "\n", "A" >>

\* C10: the message shown at the confirmation prompt, and committed on "Yes",
\* is never None, is not empty and begins with one of the eight lower-case
\* prefixes.
C10_SuggestedMessageHasPrefix ==
    /\ pc = "show" => ai_message # None
    /\ selectCalls >= 1
       => /\ shown # None
          /\ shown # << >>
          /\ \E p \in ConventionalPrefixes : Begins(shown, p)
    /\ (action = Yes /\ commitCalls >= 1) => committed = shown

C10_Witness ==
    /\ pc = "done"
    /\ shown = << "f","e","a","t",":"," " >>
    /\ action = Yes
    /\ committed = shown
    /\ commit_status = "ok"

====
